---- MODULE Spec2Model ----
(***************************************************************************)
(* markdown2dita: convert.py, the Markdown -> DITA concept converter.      *)
(*                                                                         *)
(* A text is a sequence of one-character strings.  XML tags that the code  *)
(* only ever writes and matches whole ("</title>") are single elements.    *)
(* main() is one sequential function; its steps are the actions below.     *)
(***************************************************************************)
EXTENDS Integers, Sequences, FiniteSets, TLC

VARIABLES
    original,     \* main: the markdown read from the input file or stdin
    shortdesc,    \* parsed_args.shortdesc
    pc,           \* where main() is
    stripped,     \* sanitize: the value strip_h1 returned
    textInput,    \* main: textInput = sanitize(original)
    restored,     \* restore_headings applied to the sanitized text
    toc,          \* md2py.md2py(textInput): the parsed elements, in order
    printed,      \* check_invalid_headings: the messages printed so far
    h1title,      \* toc.h1.title  (get_concept_title_and_content)
    h1content,    \* toc.h1.content
    interimDita,  \* the XML create_dita_from_topic returned
    finalDita,    \* the document written to the output
    exit          \* how the process ended, "" while it runs

vars == <<original, shortdesc, pc, stripped, textInput, restored, toc,
          printed, h1title, h1content, interimDita, finalDita, exit>>

-----------------------------------------------------------------------------
(* Bounds of the model *)

\* longest text of the sanitizer specification (characters)
MaxLen == 8
\* most sections after the h1 in a document of the pipeline specification
MaxSections == 3

-----------------------------------------------------------------------------
(* Characters and the classes the regular expressions use *)

Letters == {"a", "b", "r", "x", "y", "z", "w", "t", "h", "T", "A", "H"}
Digits == {"0", "1", "2", "3", "4", "5", "6", "7", "8", "9"}
\* \s
IsSpace(c) == c \in {" ", "\n"}
\* \w
IsWord(c) == c \in Letters \cup Digits \cup {"_"}
\* [\sA-Za-z0-9] of idRegex
InIdClass(c) == IsSpace(c) \/ c \in Letters \cup Digits

Lower(c) == CASE c = "T" -> "t" [] c = "A" -> "a" [] c = "H" -> "h" [] OTHER -> c

\* the global placeholders
hashSubs == <<"@", "@", "H", "1", "@", "@">>
headingSub == <<"_", "@", "@", "!", "!", "£">>

-----------------------------------------------------------------------------
(* str methods and re functions on sequences *)

\* whether pat occurs in s at position i
MatchAt(s, pat, i) ==
    /\ i >= 1
    /\ i + Len(pat) - 1 <= Len(s)
    /\ \A k \in 1..Len(pat) : s[i + k - 1] = pat[k]

\* str.find from position i, 0 when absent
RECURSIVE Find(_, _, _)
Find(s, pat, i) ==
    IF i + Len(pat) - 1 > Len(s) THEN 0
    ELSE IF MatchAt(s, pat, i) THEN i
    ELSE Find(s, pat, i + 1)

Contains(s, pat) == Find(s, pat, 1) # 0

\* str.replace(pat, rep, 1) and re.sub(pat, rep, s, 1) for a literal pattern
ReplaceFirst(s, pat, rep) ==
    LET i == Find(s, pat, 1)
    IN  IF i = 0 THEN s
        ELSE SubSeq(s, 1, i - 1) \o rep \o SubSeq(s, i + Len(pat), Len(s))

\* re.sub(pat, rep, s) for a literal pattern: leftmost, non-overlapping
RECURSIVE ReplaceAllFrom(_, _, _, _)
ReplaceAllFrom(s, pat, rep, i) ==
    IF i > Len(s) THEN <<>>
    ELSE IF MatchAt(s, pat, i) THEN rep \o ReplaceAllFrom(s, pat, rep, i + Len(pat))
    ELSE <<s[i]>> \o ReplaceAllFrom(s, pat, rep, i + 1)

ReplaceAll(s, pat, rep) == ReplaceAllFrom(s, pat, rep, 1)

\* list.count
RECURSIVE Count(_, _)
Count(list, e) ==
    IF list = <<>> THEN 0
    ELSE (IF Head(list) = e THEN 1 ELSE 0) + Count(Tail(list), e)

RemoveAt(list, i) == SubSeq(list, 1, i - 1) \o SubSeq(list, i + 1, Len(list))

\* str(i)
RECURSIVE Str(_)
Str(i) ==
    LET d == <<"0", "1", "2", "3", "4", "5", "6", "7", "8", "9">>
    IN  IF i < 10 THEN <<d[i + 1]>> ELSE Str(i \div 10) \o <<d[(i % 10) + 1]>>

\* "\n".join(list)
RECURSIVE Join(_)
Join(list) ==
    IF list = <<>> THEN <<>>
    ELSE IF Len(list) = 1 THEN list[1]
    ELSE list[1] \o <<"\n">> \o Join(Tail(list))

-----------------------------------------------------------------------------
(* sanitize *)

\* re.sub(r"([^#])#([^#])", r"\1@@H1@@\2", output): a match takes the
\* character before and the character after the #, so the scan goes on
\* behind the character after it
RECURSIVE SubSingleHash(_, _)
SubSingleHash(s, i) ==
    IF i > Len(s) THEN <<>>
    ELSE IF /\ i + 2 <= Len(s)
            /\ s[i] # "#" /\ s[i + 1] = "#" /\ s[i + 2] # "#"
         THEN <<s[i]>> \o hashSubs \o <<s[i + 2]>> \o SubSingleHash(s, i + 3)
         ELSE <<s[i]>> \o SubSingleHash(s, i + 1)

strip_h1(text) ==
    LET output == <<"\n">> \o text
    IN  ReplaceFirst(SubSingleHash(output, 1), hashSubs, <<"#">>)

\* first "\n" at or after i, 0 when there is none
RECURSIVE NextNewline(_, _)
NextNewline(s, i) ==
    IF i > Len(s) THEN 0
    ELSE IF s[i] = "\n" THEN i
    ELSE NextNewline(s, i + 1)

\* re.findall(r'(#[\sA-Za-z0-9]*?)\n', text): from a #, lazily to the first
\* line break, over characters of the class only
RECURSIVE FindAllIds(_, _)
FindAllIds(s, i) ==
    IF i > Len(s) THEN <<>>
    ELSE LET j == NextNewline(s, i + 1)
         IN  IF /\ s[i] = "#"
                /\ j # 0
                /\ \A k \in (i + 1)..(j - 1) : InIdClass(s[k])
             THEN <<SubSeq(s, i, j - 1)>> \o FindAllIds(s, j + 1)
             ELSE FindAllIds(s, i + 1)

\* for match in list_of_ids: if list_of_ids.count(match) == 1:
\*     list_of_ids.remove(match)
\* the list iterator goes by index, so the element behind a removed one is
\* skipped
RECURSIVE RemoveUnique(_, _)
RemoveUnique(list, idx) ==
    IF idx > Len(list) THEN list
    ELSE IF Count(list, list[idx]) = 1
         THEN RemoveUnique(RemoveAt(list, idx), idx + 1)
         ELSE RemoveUnique(list, idx + 1)

\* the elements of a list, each once, in the order of their first occurrence
RECURSIVE Distinct(_)
Distinct(list) ==
    IF list = <<>> THEN <<>>
    ELSE LET rest == Distinct(SubSeq(list, 1, Len(list) - 1))
             e == list[Len(list)]
         IN  IF Count(rest, e) > 0 THEN rest ELSE Append(rest, e)

\* text = text.replace(match + "\n", match + substitution + str(i), 1)
\* for i = from..n: the line break is part of what is replaced
RECURSIVE SuffixOccurrences(_, _, _, _)
SuffixOccurrences(text, match, i, n) ==
    IF i > n THEN text
    ELSE SuffixOccurrences(
             ReplaceFirst(text, match \o <<"\n">>, match \o headingSub \o Str(i)),
             match, i + 1, n)

\* for duplicate in duplicates: ... (the set's iteration order does not
\* change the result: the replaced strings of two titles never overlap)
RECURSIVE SuffixDuplicates(_, _, _)
SuffixDuplicates(text, list_of_ids, duplicates) ==
    IF duplicates = <<>> THEN text
    ELSE SuffixDuplicates(
             SuffixOccurrences(text, Head(duplicates), 1,
                               Count(list_of_ids, Head(duplicates))),
             list_of_ids, Tail(duplicates))

disambiguate_duplicate_headings(text) ==
    LET list_of_ids == RemoveUnique(FindAllIds(text, 1), 1)
    IN  SuffixDuplicates(text, list_of_ids, Distinct(list_of_ids))

\* if "######" in text: sys.exit(...)
DepthExceeded(text) == Contains(text, <<"#", "#", "#", "#", "#", "#">>)

-----------------------------------------------------------------------------
(* restore_headings *)

\* length of the run of digits of s from i
RECURSIVE DigitRun(_, _)
DigitRun(s, i) ==
    IF i <= Len(s) /\ s[i] \in Digits THEN 1 + DigitRun(s, i + 1) ELSE 0

\* re.sub(r"_@@!!£[\d]*?</title>", r"</title>", output)
RECURSIVE SubTitleSuffix(_, _)
SubTitleSuffix(s, i) ==
    IF i > Len(s) THEN <<>>
    ELSE LET j == i + Len(headingSub)
             e == j + DigitRun(s, j)
         IN  IF MatchAt(s, headingSub, i) /\ e <= Len(s) /\ s[e] = "</title>"
             THEN <<"</title>">> \o SubTitleSuffix(s, e + 1)
             ELSE <<s[i]>> \o SubTitleSuffix(s, i + 1)

\* a restore that passes count 1, as strip_h1's second re.sub does
RestoreHashes_first(text) == ReplaceFirst(text, hashSubs, <<"#">>)

\* re.sub(r"@@H1@@", r"#", original)
RestoreHashes(text) == ReplaceAll(text, hashSubs, <<"#">>)

restore_headings(text) == SubTitleSuffix(RestoreHashes(text), 1)

-----------------------------------------------------------------------------
(* md2py.md2py(textInput): markdown -> HTML -> TreeOfContents *)

\* the lines of a text, without their line breaks
RECURSIVE SplitLines(_)
SplitLines(s) ==
    LET j == NextNewline(s, 1)
    IN  IF j = 0 THEN (IF s = <<>> THEN <<>> ELSE <<s>>)
        ELSE <<SubSeq(s, 1, j - 1)>> \o SplitLines(SubSeq(s, j + 1, Len(s)))

RECURSIVE LeadingHashes(_)
LeadingHashes(line) ==
    IF line # <<>> /\ Head(line) = "#" THEN 1 + LeadingHashes(Tail(line)) ELSE 0

\* str.strip() of the header text, closing #s dropped
RECURSIVE StripLeft(_)
StripLeft(s) == IF s # <<>> /\ IsSpace(Head(s)) THEN StripLeft(Tail(s)) ELSE s

RECURSIVE StripRight(_)
StripRight(s) ==
    IF s # <<>> /\ (IsSpace(s[Len(s)]) \/ s[Len(s)] = "#")
    THEN StripRight(SubSeq(s, 1, Len(s) - 1)) ELSE s

IsBlank(line) == \A k \in 1..Len(line) : IsSpace(line[k])

\* the block elements of the document: tag 1..6 for <h1>..<h6>, 0 for <p>;
\* string is the element's text.  A line of 1..6 #s and a text is a heading
\* wherever it stands; other lines gather into paragraphs.
RECURSIVE Blocks(_, _)
Blocks(lines, para) ==
    LET flush == IF para = <<>> THEN <<>> ELSE <<[tag |-> 0, string |-> para]>>
    IN  IF lines = <<>> THEN flush
        ELSE LET line == Head(lines)
                 k == LeadingHashes(line)
                 level == IF k > 6 THEN 6 ELSE k
             IN  IF k >= 1
                 THEN flush
                      \o <<[tag |-> level,
                            string |-> StripRight(StripLeft(SubSeq(line, level + 1, Len(line))))]>>
                      \o Blocks(Tail(lines), <<>>)
                 ELSE IF IsBlank(line) THEN flush \o Blocks(Tail(lines), <<>>)
                 ELSE Blocks(Tail(lines),
                             IF para = <<>> THEN line ELSE para \o <<"\n">> \o line)

\* parseTopDepth: the highest heading level the source holds
TopDepth(blocks) ==
    LET present == {d \in 1..6 : \E i \in 1..Len(blocks) : blocks[i].tag = d}
    IN  IF present = {} THEN 0
        ELSE CHOOSE d \in present : \A e \in present : d <= e

\* cond of parseBranches: elements without text are passed over
HasText(b) == ~IsBlank(b.string)

md2py(text) ==
    LET blocks == Blocks(SplitLines(text), <<>>)
    IN  [elems |-> SelectSeq(blocks, HasText), depth |-> TopDepth(blocks)]

\* A TreeOfContents object: the element idx, its descendants lo..hi, and
\* depth, the heading level that opens a branch below it.
TocRoot(t) == [idx |-> 0, lo |-> 1, hi |-> Len(t.elems), depth |-> t.depth]

\* parseBranches: an element of the node's depth opens a branch and takes
\* what follows as its descendants; an element before the first such heading
\* is a branch of its own, without descendants
IsBranch(t, node, i) ==
    /\ i \in node.lo..node.hi
    /\ \/ t.elems[i].tag = node.depth
       \/ ~\E j \in node.lo..(i - 1) : t.elems[j].tag = node.depth

BranchNode(t, node, i) ==
    LET later == {j \in (i + 1)..node.hi : t.elems[j].tag = node.depth}
        last == IF later = {} THEN node.hi
                ELSE (CHOOSE j \in later : \A e \in later : j <= e) - 1
    IN  [idx |-> i, lo |-> i + 1,
         hi |-> IF t.elems[i].tag = node.depth THEN last ELSE i,
         depth |-> node.depth + 1]

RECURSIVE BranchesFrom(_, _, _)
BranchesFrom(t, node, i) ==
    IF i > node.hi THEN <<>>
    ELSE (IF IsBranch(t, node, i) THEN <<BranchNode(t, node, i)>> ELSE <<>>)
         \o BranchesFrom(t, node, i + 1)

\* list(node)
Branches(t, node) == BranchesFrom(t, node, node.lo)

\* __getattr__('h<n>s'): the branches that are <hn> elements
RECURSIVE TaggedIn(_, _, _)
TaggedIn(t, list, n) ==
    IF list = <<>> THEN <<>>
    ELSE (IF t.elems[Head(list).idx].tag = n THEN <<Head(list)>> ELSE <<>>)
         \o TaggedIn(t, Tail(list), n)

Tagged(t, node, n) == TaggedIn(t, Branches(t, node), n)

\* toc.h1: the first <h1> branch of the document
TocH1(t) == Head(Tagged(t, TocRoot(t), 1))

\* str(heading)
StrOf(t, node) == t.elems[node.idx].string

-----------------------------------------------------------------------------
(* check_invalid_headings *)

\* str(heading).split(headingSub)[0]
DisplayTitle(title) ==
    LET i == Find(title, headingSub, 1)
    IN  IF i = 0 THEN title ELSE SubSeq(title, 1, i - 1)

\* the messages check_heading prints for one heading
RECURSIVE HeadingMessages(_, _, _)
HeadingMessages(t, heading, invalid_headings) ==
    IF invalid_headings = <<>> THEN <<>>
    ELSE (IF Tagged(t, heading, Head(invalid_headings)) # <<>>
          THEN <<[heading |-> heading.idx, level |-> Head(invalid_headings),
                  title |-> DisplayTitle(StrOf(t, heading))]>>
          ELSE <<>>)
         \o HeadingMessages(t, heading, Tail(invalid_headings))

\* a check_heading whose current_status starts from False at every call
check_heading_fresh(invalid_heading_status, found) == found

\* check_heading's result: current_status starts from the enclosing
\* function's invalid_heading_status, read when check_heading is called
check_heading(invalid_heading_status, found) == invalid_heading_status \/ found

\* the calls of check_heading, in order: toc.h1, then each h2 of the h1
\* followed by each h3 of that h2
RECURSIVE H3Calls(_)
H3Calls(h3s) ==
    IF h3s = <<>> THEN <<>>
    ELSE <<[heading |-> Head(h3s), invalid |-> <<5>>]>> \o H3Calls(Tail(h3s))

RECURSIVE H2Calls(_, _)
H2Calls(t, h2s) ==
    IF h2s = <<>> THEN <<>>
    ELSE <<[heading |-> Head(h2s), invalid |-> <<4, 5>>]>>
         \o H3Calls(Tagged(t, Head(h2s), 3))
         \o H2Calls(t, Tail(h2s))

CheckCalls(t) ==
    <<[heading |-> TocH1(t), invalid |-> <<3, 4, 5>>]>>
    \o H2Calls(t, Tagged(t, TocH1(t), 2))

RECURSIVE RunChecks(_, _, _, _)
RunChecks(t, calls, status, out) ==
    IF calls = <<>> THEN [status |-> status, printed |-> out]
    ELSE LET msgs == HeadingMessages(t, Head(calls).heading, Head(calls).invalid)
         IN  RunChecks(t, Tail(calls), check_heading(status, msgs # <<>>), out \o msgs)

check_invalid_headings(t) == RunChecks(t, CheckCalls(t), FALSE, <<>>)

-----------------------------------------------------------------------------
(* create_dita_from_topic *)

\* length of the run of characters other than # of s from i
RECURSIVE NonHashRun(_, _)
NonHashRun(s, i) ==
    IF i <= Len(s) /\ s[i] # "#" THEN 1 + NonHashRun(s, i + 1) ELSE 0

\* re.findall(r"#[\s]%s([^#]*)" % str(heading), inputMD): the title is the
\* pattern; the titles of the model hold no regular-expression operators
RECURSIVE FindAllContent(_, _, _)
FindAllContent(s, title, i) ==
    IF i > Len(s) THEN <<>>
    ELSE LET g == i + 2 + Len(title)
             n == NonHashRun(s, g)
         IN  IF /\ s[i] = "#"
                /\ i + 1 <= Len(s) /\ IsSpace(s[i + 1])
                /\ MatchAt(s, title, i + 2)
             THEN <<SubSeq(s, g, g + n - 1)>> \o FindAllContent(s, title, g + n)
             ELSE FindAllContent(s, title, i + 1)

\* heading.content of get_concept_title_and_content
ContentOf(title, inputMD) == Join(FindAllContent(inputMD, title, 1))

\* re.sub(r'\W+', '', heading.title.lower().replace(" ", "_"))
RECURSIVE SlugId(_)
SlugId(title) ==
    IF title = <<>> THEN <<>>
    ELSE LET c == IF Head(title) = " " THEN "_" ELSE Lower(Head(title))
         IN  (IF IsWord(c) THEN <<c>> ELSE <<>>) \o SlugId(Tail(title))

\* markdown2dita.Markdown.parse, split_text: both regular expressions start
\* with (\s#.*), a white space followed by a #; when neither matches,
\* text_split[0] raises IndexError in the try and again in the handler
SplitTextMatches(text) ==
    \E i \in 1..(Len(text) - 1) : IsSpace(text[i]) /\ text[i + 1] = "#"

\* ditaRenderer(heading.content): calling the Markdown object runs its
\* parse, which begins with split_text
RendererRaises(content) == ~SplitTextMatches(content)

-----------------------------------------------------------------------------
(* The inputs *)

\* the characters of the texts of the sanitizer specification
SanAlphabet == {"#", "a", "\n"}

SanTexts == UNION {[1..n -> SanAlphabet] : n \in 0..MaxLen}

\* A document: the line "# T" and its paragraph, then up to MaxSections
\* sections, each a heading line of level 2..6 and a one-letter paragraph.
\* blank says whether an empty line follows each heading line.
RootTitle == <<"T">>
SectionTitles == {<<"A">>, <<"T", "b">>}
SectionBodies == <<"x", "y", "z", "w", "a">>

Sections == UNION {[1..n -> [level : 2..6, title : SectionTitles]] : n \in 0..MaxSections}

Hashes(n) == [k \in 1..n |-> "#"]

HeadingLine(level, title, blank) ==
    Hashes(level) \o <<" ">> \o title \o (IF blank THEN <<"\n", "\n">> ELSE <<"\n">>)

RECURSIVE SectionsText(_, _, _)
SectionsText(secs, i, blank) ==
    IF i > Len(secs) THEN <<>>
    ELSE HeadingLine(secs[i].level, secs[i].title, blank)
         \o <<SectionBodies[i], "\n", "\n">>
         \o SectionsText(secs, i + 1, blank)

DocText(secs, blank) ==
    HeadingLine(1, RootTitle, blank) \o <<"r", "\n", "\n">> \o SectionsText(secs, 1, blank)

Documents == {DocText(secs, blank) : secs \in Sections, blank \in BOOLEAN}

NoToc == [elems |-> <<>>, depth |-> 0]

Start(text) ==
    /\ original = text
    /\ pc = "start"
    /\ stripped = <<>>
    /\ textInput = <<>>
    /\ restored = <<>>
    /\ toc = NoToc
    /\ printed = <<>>
    /\ h1title = <<>>
    /\ h1content = <<>>
    /\ interimDita = <<>>
    /\ finalDita = <<>>
    /\ exit = ""

Init ==
    /\ \E text \in Documents : Start(text)
    /\ shortdesc \in {"yes", "no"}

InitSan ==
    /\ \E text \in SanTexts : Start(text)
    /\ shortdesc = "yes"

-----------------------------------------------------------------------------
(* The steps of main() *)

\* sanitize: if "######" in text: sys.exit("You have headings that are lower
\* than h4. ...")
SanitizeDepthExit ==
    /\ pc = "start"
    /\ DepthExceeded(original)
    /\ pc' = "ended"
    /\ exit' = "depth exceeded"
    /\ UNCHANGED <<original, shortdesc, stripped, textInput, restored, toc,
                   printed, h1title, h1content, interimDita, finalDita>>

\* sanitize: strip_h1(text)
StripH1 ==
    /\ pc = "start"
    /\ ~DepthExceeded(original)
    /\ stripped' = strip_h1(original)
    /\ pc' = "stripped"
    /\ UNCHANGED <<original, shortdesc, textInput, restored, toc, printed,
                   h1title, h1content, interimDita, finalDita, exit>>

\* sanitize: text = disambiguate_duplicate_headings(...); return text
DisambiguateDuplicateHeadings ==
    /\ pc = "stripped"
    /\ textInput' = disambiguate_duplicate_headings(stripped)
    /\ pc' = "sanitized"
    /\ UNCHANGED <<original, shortdesc, stripped, restored, toc, printed,
                   h1title, h1content, interimDita, finalDita, exit>>

\* restore_headings applied to the sanitized text
RestoreHeadings ==
    /\ pc = "sanitized"
    /\ restored' = restore_headings(textInput)
    /\ pc' = "restored"
    /\ UNCHANGED <<original, shortdesc, stripped, textInput, toc, printed,
                   h1title, h1content, interimDita, finalDita, exit>>

\* toc = md2py.md2py(textInput)
BuildTree ==
    /\ pc = "sanitized"
    /\ toc' = md2py(textInput)
    /\ pc' = "parsed"
    /\ UNCHANGED <<original, shortdesc, stripped, textInput, restored, printed,
                   h1title, h1content, interimDita, finalDita, exit>>

\* check_invalid_headings(): a jump was found,
\* sys.exit("Invalid structure. Check your file and try again.")
CheckInvalidHeadingsExit ==
    /\ pc = "parsed"
    /\ LET r == check_invalid_headings(toc)
       IN  /\ r.status
           /\ printed' = r.printed
    /\ pc' = "ended"
    /\ exit' = "invalid structure"
    /\ UNCHANGED <<original, shortdesc, stripped, textInput, restored, toc,
                   h1title, h1content, interimDita, finalDita>>

\* check_invalid_headings(): no jump, it returns
CheckInvalidHeadingsPass ==
    /\ pc = "parsed"
    /\ LET r == check_invalid_headings(toc)
       IN  /\ ~r.status
           /\ printed' = r.printed
    /\ pc' = "validated"
    /\ UNCHANGED <<original, shortdesc, stripped, textInput, restored, toc,
                   h1title, h1content, interimDita, finalDita, exit>>

\* create_dita_from_topic(textInput): get_concept_title_and_content(toc.h1),
\* then start_concept_dita(toc.h1), whose ditaRenderer(heading.content)
\* raises IndexError.  The content is made of [^#]* groups, so split_text
\* never finds its title marker: no call of the renderer returns, heading.dita
\* is never assigned and the process ends with the traceback.
CreateDitaFromTopicRaises ==
    /\ pc = "validated"
    /\ h1title' = StrOf(toc, TocH1(toc))
    /\ h1content' = ContentOf(h1title', textInput)
    /\ RendererRaises(h1content')
    /\ pc' = "ended"
    /\ exit' = "IndexError"
    /\ UNCHANGED <<original, shortdesc, stripped, textInput, restored, toc,
                   printed, interimDita, finalDita>>

Next ==
    \/ SanitizeDepthExit
    \/ StripH1
    \/ DisambiguateDuplicateHeadings
    \/ BuildTree
    \/ CheckInvalidHeadingsExit
    \/ CheckInvalidHeadingsPass
    \/ CreateDitaFromTopicRaises

Spec == Init /\ [][Next]_vars

NextSan ==
    \/ SanitizeDepthExit
    \/ StripH1
    \/ DisambiguateDuplicateHeadings
    \/ RestoreHeadings

SpecSan == InitSan /\ [][NextSan]_vars

-----------------------------------------------------------------------------
(* What the claims speak of *)

Range(f) == {f[k] : k \in DOMAIN f}

\* every TreeOfContents object below a node, the node included
RECURSIVE Subtree(_, _)
Subtree(t, node) ==
    {node} \cup UNION {Subtree(t, b) : b \in Range(Branches(t, node))}

TagOf(t, node) == IF node.idx = 0 THEN 0 ELSE t.elems[node.idx].tag

HeadingNodes(t) == {n \in Subtree(t, TocRoot(t)) : TagOf(t, n) \in 1..6}

\* a heading jump: a heading of level 1..3 with a direct child heading two
\* or more levels deeper, down to h5
JumpPairs(t) ==
    LET nodes == HeadingNodes(t)
    IN  {p \in {<<n.idx, l>> : n \in nodes, l \in 3..5} :
            \E n \in nodes :
                /\ n.idx = p[1]
                /\ TagOf(t, n) \in 1..3
                /\ p[2] >= TagOf(t, n) + 2
                /\ \E b \in Range(Branches(t, n)) : TagOf(t, b) = p[2]}

\* check_invalid_headings has run
Checked == pc = "validated" \/ (pc = "ended" /\ exit # "depth exceeded")

\* the run is over and was not stopped by sanitize or check_invalid_headings
RanToEnd == pc = "ended" /\ exit \notin {"depth exceeded", "invalid structure"}

RECURSIVE CountOccurrences(_, _, _)
CountOccurrences(s, pat, i) ==
    IF i + Len(pat) - 1 > Len(s) THEN 0
    ELSE (IF MatchAt(s, pat, i) THEN 1 ELSE 0) + CountOccurrences(s, pat, i + 1)

HashCount(s) == Count(s, "#")

\* a # that is not part of a run of two or more
IsolatedHash(s, i) ==
    /\ s[i] = "#"
    /\ (i = 1 \/ s[i - 1] # "#")
    /\ (i = Len(s) \/ s[i + 1] # "#")

IsolatedCount(s) == Cardinality({i \in 1..Len(s) : IsolatedHash(s, i)})

-----------------------------------------------------------------------------
(* C1 *)

\* C1: check_invalid_headings ends the run if and only if the tree holds a
\* heading jump; it has then printed exactly one message for every violating
\* (heading, level) pair of the whole tree, with the heading's display title,
\* and nothing was assembled or written; without a jump nothing is printed
\* and the run goes on to the assembly.
C1_JumpsAbortWithAllMessages ==
    Checked =>
        LET jumps == JumpPairs(toc)
        IN  /\ (exit = "invalid structure") <=> (jumps # {})
            /\ {<<printed[k].heading, printed[k].level>> : k \in DOMAIN printed} = jumps
            /\ Len(printed) = Cardinality(jumps)
            /\ \A k \in DOMAIN printed :
                   printed[k].title = DisplayTitle(toc.elems[printed[k].heading].string)
            /\ exit = "invalid structure" =>
                   /\ h1title = <<>> /\ h1content = <<>>
                   /\ interimDita = <<>> /\ finalDita = <<>>
            /\ jumps = {} =>
                   /\ printed = <<>>
                   /\ pc = "validated" \/ exit = "IndexError"

\* a run stopped for a jump on an earlier heading although the heading
\* checked last is clean, with more than one message printed
C1_Witness ==
    /\ pc = "ended" /\ exit = "invalid structure"
    /\ Len(printed) >= 2
    /\ LET calls == CheckCalls(toc)
           last == calls[Len(calls)]
       IN  /\ Len(calls) >= 2
           /\ HeadingMessages(toc, last.heading, last.invalid) = <<>>

-----------------------------------------------------------------------------
(* C2 *)

HeadingCount(t) == Cardinality({i \in 1..Len(t.elems) : t.elems[i].tag \in 1..4})

\* C2: for a tree that passed validation create_dita_from_topic returns XML
\* with exactly one <concept> element per heading node, opening and closing
\* tags balanced.
C2_OneConceptPerHeading ==
    RanToEnd =>
        /\ CountOccurrences(interimDita, <<"<concept id=">>, 1) = HeadingCount(toc)
        /\ CountOccurrences(interimDita, <<"</concept>">>, 1) = HeadingCount(toc)

-----------------------------------------------------------------------------
(* C3 *)

\* the heading lines of the input as written: level and title
SourceHeadings == SelectSeq(md2py(original).elems, LAMBDA b : b.tag \in 1..6)

\* C3: when a title is carried by two or more headings, the final document
\* shows the undecorated title in a <title> of each of them and the body
\* paragraph of each of these sections once.
C3_DuplicateTitlesKeepTheirBodies ==
    RanToEnd =>
        \A k \in DOMAIN SourceHeadings :
            LET title == SourceHeadings[k].string
                same == {j \in DOMAIN SourceHeadings : SourceHeadings[j].string = title}
            IN  Cardinality(same) >= 2 =>
                    /\ CountOccurrences(finalDita, <<"<title>">> \o title \o <<"</title>">>, 1)
                           = Cardinality(same)
                    /\ \A j \in same : Count(finalDita, SectionBodies[j - 1]) = 1

-----------------------------------------------------------------------------
(* C4 *)

\* a line that starts with five or more #
HasDeepHeading(text) ==
    \E k \in DOMAIN SplitLines(text) : LeadingHashes(SplitLines(text)[k]) >= 5

\* C4: an input with a heading deeper than level four fails with the
\* depth-exceeded error before the heading tree is built.
C4_DeepHeadingFailsBeforeTree ==
    HasDeepHeading(original) =>
        /\ toc = NoToc
        /\ pc = "ended" => exit = "depth exceeded"

-----------------------------------------------------------------------------
(* C5 *)

-----------------------------------------------------------------------------
(* C6 *)

\* C6: with shortdesc=no the final document holds no <shortdesc> and the
\* first paragraph of the root stays in the root's <conbody>; otherwise that
\* paragraph is the one <shortdesc> of the document, and the tags balance.
C6_ShortdescToggle ==
    RanToEnd =>
        IF shortdesc = "no"
        THEN /\ Count(finalDita, "<shortdesc>") = 0
             /\ Contains(finalDita, <<"<conbody>", "\n", "<p>", "r", "</p>">>)
        ELSE /\ Count(finalDita, "<shortdesc>") = 1
             /\ Contains(finalDita, <<"<shortdesc>", "r", "</shortdesc>">>)
             /\ Count(finalDita, "<conbody>") = Count(finalDita, "</conbody>")

-----------------------------------------------------------------------------
(* C7 *)

\* C7: every heading node has a <concept> element whose id is the slug of
\* its display title.
C7_IdIsSlugOfDisplayTitle ==
    RanToEnd =>
        \A i \in 1..Len(toc.elems) :
            toc.elems[i].tag \in 1..4 =>
                Contains(interimDita,
                         <<"<concept id=">> \o SlugId(DisplayTitle(toc.elems[i].string)) \o <<">">>)

-----------------------------------------------------------------------------
(* C8 *)

\* the start of the first heading line of s from position i, Len(s) + 1
\* when there is none
RECURSIVE NextHeadingLine(_, _)
NextHeadingLine(s, i) ==
    IF i > Len(s) THEN Len(s) + 1
    ELSE IF s[i] = "#" /\ (i = 1 \/ s[i - 1] = "\n") THEN i
    ELSE NextHeadingLine(s, i + 1)

\* the text between the end of the title of the first heading line and the
\* next heading line (the line break that ends the heading line included,
\* as the code takes it)
FirstHeadingBody(s) ==
    LET h == NextHeadingLine(s, 1)
        e == NextNewline(s, h)
    IN  SubSeq(s, e, NextHeadingLine(s, e) - 1)

\* C8: the body text get_concept_title_and_content extracts for a heading is
\* the text from that heading's line to the next heading line of any level,
\* and holds no text of any other heading (stated for toc.h1, the first
\* heading of the document).
C8_ContentIsOwnBody ==
    (pc = "ended" /\ exit = "IndexError") => h1content = FirstHeadingBody(textInput)

-----------------------------------------------------------------------------
(* C9 *)

\* C9: after strip_h1 every single # but the first is a hash placeholder:
\* the text holds exactly one isolated # when the input holds any.
C9_OneIsolatedHashLeft ==
    pc = "stripped" =>
        (IsolatedCount(original) >= 1 =>
            /\ IsolatedCount(stripped) = 1
            /\ CountOccurrences(stripped, hashSubs, 1) = IsolatedCount(original) - 1)

-----------------------------------------------------------------------------
(* C10 *)

\* the text with the suffix (token, then k = 1, 2, ... within each group of
\* equal titles) behind the heading text of the headings whose text occurs
\* more than once, everything else and every line break kept
RECURSIVE SuffixedAsClaimed(_, _, _, _)
SuffixedAsClaimed(s, i, n, ids) ==
    IF i > Len(s) THEN <<>>
    ELSE LET j == NextNewline(s, i + 1)
         IN  IF /\ s[i] = "#"
                /\ j # 0
                /\ \A k \in (i + 1)..(j - 1) : InIdClass(s[k])
             THEN SubSeq(s, i, j - 1)
                  \o (IF Count(ids, ids[n]) > 1
                      THEN headingSub \o Str(Count(SubSeq(ids, 1, n), ids[n]))
                      ELSE <<>>)
                  \o <<"\n">>
                  \o SuffixedAsClaimed(s, j + 1, n + 1, ids)
             ELSE <<s[i]>> \o SuffixedAsClaimed(s, i + 1, n, ids)

\* C10: disambiguate_duplicate_headings only appends the suffix to the
\* heading lines whose title occurs more than once; a title that occurs once
\* gets none and every line break is kept.
C10_OnlyDuplicatesSuffixed ==
    pc = "sanitized" =>
        textInput = SuffixedAsClaimed(stripped, 1, 1, FindAllIds(stripped, 1))

====
